---- MODULE Spec2Model ----
(***************************************************************************)
(* Model of the Bitcoin block-file query service: blockchain.py (decoder,  *)
(* chain index, main-chain resolver, by-hash accessors) and server.py (the *)
(* HTTP request handler).                                                  *)
(*                                                                         *)
(* Byte strings are sequences of byte values.  A hex string and the bytes  *)
(* it encodes are the same sequence, so decode('hex') / encode('hex_codec')*)
(* vanish and [::-1] is Reverse.  SHA256(SHA256(x)) is an uninterpreted    *)
(* collision-free function (see sha256d).  A 32-byte hash is therefore a   *)
(* byte sequence of its own length; wherever the code counts bytes, a hash *)
(* counts 32.                                                              *)
(***************************************************************************)
EXTENDS Integers, Sequences, FiniteSets, TLC

(* ------------------------------ bounds --------------------------------- *)

\* number of block records a run of setup ingests at most
MaxBlocks == 4

\* the same, for runs in which request handlers are interleaved with setup
MaxServeBlocks == 2

\* the number of records decoded when load_blockchain is run alone
MaxIngestBlocks == 3

\* the number of records a block file holds at most when load_file is followed
\* offset by offset
MaxFileRecords == 2

\* the number of records ingested in the runs in which the end of the
\* resolver is checked
MaxResolveBlocks == 3

\* the longest list of hashes get_merkle_root is called on
MaxHashes == 4

\* the most bytes that follow the first byte where parse_var_len_int is called
MaxTailBytes == 8

(* --------------------------- byte helpers ------------------------------ *)

\* bytes[::-1]
Reverse(s) == <<>> \o [i \in 1..Len(s) |-> s[Len(s) + 1 - i]]

RECURSIVE BigEndianInt(_)
\* int(hex, 16): the most significant byte comes first
BigEndianInt(s) ==
    IF s = <<>> THEN 0
    ELSE 256 * BigEndianInt(SubSeq(s, 1, Len(s) - 1)) + s[Len(s)]

\* int(field.decode('hex')[::-1].encode('hex_codec'), 16)
LittleFieldInt(field) == BigEndianInt(Reverse(field))

\* binascii.hexlify(bytes)
byte_to_hex_string_little(bytes) == bytes

\* binascii.hexlify(bytes[::-1])
byte_to_hex_string_big(bytes) == Reverse(bytes)

\* hashlib.sha256(hashlib.sha256(data).digest()).digest(): the digest is the
\* data behind a marker no byte equals, so that distinct data have distinct
\* digests and no digest equals its own data
sha256d(data) == <<256>> \o data

\* "0000...0000", the previous block hash of the genesis block
source_hash == <<0>>

\* the empty string "" (initial latest_block_little, BFS tip of an empty index)
EmptyString == <<>>

\* the magic number compared as b'f9beb4d9'
MagicHex_DiskOrder == <<249, 190, 180, 217>>

\* the magic number as parse_block compares it, b'd9b4bef9'
MagicHex == <<217, 180, 190, 249>>

(* ------------------------- dictionaries -------------------------------- *)

EmptyDict == [k \in {} |-> 0]

DictPut(d, k, v) == [x \in (DOMAIN d) \cup {k} |-> IF x = k THEN v ELSE d[x]]

(* ----------------------------- state ----------------------------------- *)

VARIABLES
    prev_hash_to_blocks,     \* prev_hash -> list of Block
    curr_hash_to_prev_hash,  \* curr_hash -> prev_hash
    txid_to_prev_hash,       \* txid -> prev_hash of the containing block
    block_count,             \* total number of blocks parsed
    blockchain_height,       \* height of the longest chain
    latest_block_little,     \* header hash of the latest block
    pc,                      \* position of the main thread inside setup
    queue,                   \* compute_distances_bfs: queue
    distances,               \* compute_distances_bfs: distances
    max_distance,            \* compute_distances_bfs: max_distance
    max_hash,                \* compute_distances_bfs: max_hash
    bfs_order,               \* header hashes in the order BFS enqueued them
    curr_hash,               \* setup: curr_hash of the backward walk
    prev_hash,               \* setup: prev_hash of the backward walk
    message,                 \* the last response a request handler wrote
    data,                    \* load_file: the bytes of the open block file
    header_start,            \* load_file: offset of the next record
    file_pc,                 \* load_file: not called, inside the loop, returned
    call,                    \* a call of a helper function: arguments and outcome
    set_log                  \* the calls of set_height and set_main_chain so far

index_vars == <<prev_hash_to_blocks, curr_hash_to_prev_hash, txid_to_prev_hash,
                block_count>>
bfs_vars == <<queue, distances, max_distance, max_hash, bfs_order>>
walk_vars == <<curr_hash, prev_hash>>
file_vars == <<data, header_start, file_pc>>
vars == <<prev_hash_to_blocks, curr_hash_to_prev_hash, txid_to_prev_hash,
          block_count, blockchain_height, latest_block_little, pc, queue,
          distances, max_distance, max_hash, bfs_order, curr_hash, prev_hash,
          message, data, header_start, file_pc, call, set_log>>

(* ------------------------ records on disk ------------------------------ *)

\* The transactions the block files may hold.  CoinbaseTx has one input and
\* one output of 1 BTC; SpendTx has one input and no output.
CoinbaseTx ==
    [version |-> <<1, 0, 0, 0>>,
     inputs |-> << [prev_tx_hash |-> <<0>>, prev_tx_index |-> <<255, 255, 255, 127>>,
                    script |-> <<4>>, seq_num |-> <<255, 255, 255, 127>>] >>,
     outputs |-> << [satoshi_amount |-> <<0, 225, 245, 5, 0, 0, 0, 0>>,
                     script |-> <<65, 172>>] >>,
     locktime |-> <<0, 0, 0, 0>>]

SpendTx ==
    [version |-> <<2, 0, 0, 0>>,
     inputs |-> << [prev_tx_hash |-> <<0>>, prev_tx_index |-> <<0, 0, 0, 0>>,
                    script |-> <<>>, seq_num |-> <<254, 255, 255, 127>>] >>,
     outputs |-> <<>>,
     locktime |-> <<1, 0, 0, 0>>]

\* What a block record holds besides its parent hash: the other header
\* fields and the transactions.
Bodies ==
    { [version |-> <<1, 0, 0, 0>>, start_time |-> <<41, 171, 95, 73>>,
       nBits |-> <<255, 255, 0, 29>>, nonce |-> <<1, 0, 0, 0>>,
       txs |-> <<CoinbaseTx>>],
      [version |-> <<255, 255, 255, 127>>, start_time |-> <<42, 171, 95, 73>>,
       nBits |-> <<255, 255, 0, 29>>, nonce |-> <<2, 0, 0, 0>>,
       txs |-> <<CoinbaseTx, SpendTx>>] }

\* the magic bytes a record may start with: F9 BE B4 D9, and the same bytes
\* in the wrong order
Magics == { <<249, 190, 180, 217>>, <<217, 180, 190, 249>> }

RECURSIVE ConcatAll(_)
\* s[1] + s[2] + ... for a list of byte strings
ConcatAll(s) == IF s = <<>> THEN <<>> ELSE Head(s) \o ConcatAll(Tail(s))

RECURSIVE SumAll(_)
SumAll(s) == IF s = <<>> THEN 0 ELSE Head(s) + SumAll(Tail(s))

\* the bytes parse_block appends to raw_tx_data for one transaction; the
\* counts and script sizes are below 0xFD, one byte each
raw_tx_data(tx) ==
    tx.version
    \o <<Len(tx.inputs)>>
    \o ConcatAll([j \in 1..Len(tx.inputs) |->
            tx.inputs[j].prev_tx_hash \o tx.inputs[j].prev_tx_index
            \o <<Len(tx.inputs[j].script)>> \o tx.inputs[j].script
            \o tx.inputs[j].seq_num])
    \o <<Len(tx.outputs)>>
    \o ConcatAll([j \in 1..Len(tx.outputs) |->
            tx.outputs[j].satoshi_amount
            \o <<Len(tx.outputs[j].script)>> \o tx.outputs[j].script])
    \o tx.locktime

\* tx_hash_little of parse_block
TxHashLittle(tx) == sha256d(raw_tx_data(tx))

\* the number of bytes nth_byte advances over one transaction
TxBytes(tx) ==
    4 + 1
    + SumAll([j \in 1..Len(tx.inputs) |-> 32 + 4 + 1 + Len(tx.inputs[j].script) + 4])
    + 1
    + SumAll([j \in 1..Len(tx.outputs) |-> 8 + 1 + Len(tx.outputs[j].script)])
    + 4

\* nth_byte - start_block_byte once the transactions are parsed: the 80-byte
\* header, the transaction count, the transactions
ParsedBytes(txs) == 80 + 1 + SumAll([i \in 1..Len(txs) |-> TxBytes(txs[i])])

RECURSIVE get_merkle_root_Swapped(_)
\* get_merkle_root with "child_2_bin + child_1_bin" hashed for each pair
get_merkle_root_Swapped(child_hashes) ==
    IF Len(child_hashes) = 1 THEN child_hashes[1]
    ELSE LET padded == IF Len(child_hashes) % 2 = 1
                       THEN Append(child_hashes, child_hashes[Len(child_hashes)])
                       ELSE child_hashes
             num_pair == Len(padded) \div 2
             parent_hashes == [i \in 1..num_pair |->
                                 sha256d(padded[2 * i] \o padded[2 * i - 1])]
         IN  get_merkle_root_Swapped(parent_hashes)

RECURSIVE get_merkle_root(_)
get_merkle_root(child_hashes) ==
    IF Len(child_hashes) = 1 THEN child_hashes[1]
    ELSE LET padded == IF Len(child_hashes) % 2 = 1
                       THEN Append(child_hashes, child_hashes[Len(child_hashes)])
                       ELSE child_hashes
             num_pair == Len(padded) \div 2
             parent_hashes == [i \in 1..num_pair |->
                                 sha256d(padded[2 * i - 1] \o padded[2 * i])]
         IN  get_merkle_root(parent_hashes)

\* the header of a Block: the six fields in the order get_curr_hash_little
\* concatenates them
HeaderHex(b) ==
    b.version \o b.previous_block_header_hash \o b.merkle_root_hash
    \o b.start_time \o b.nBits \o b.nonce

\* Block.get_curr_hash_little
get_curr_hash_little(b) == sha256d(HeaderHex(b))

\* Block.get_curr_hash_big
get_curr_hash_big(b) == Reverse(sha256d(HeaderHex(b)))

\* the Merkle roots a header may carry
MerkleChoices == { get_merkle_root([i \in 1..Len(b.txs) |-> TxHashLittle(b.txs[i])])
                   : b \in Bodies }

\* header hashes of the blocks that have the sentinel as parent and a correct
\* Merkle root
GenesisHashes ==
    { get_curr_hash_little(
        [version |-> b.version, previous_block_header_hash |-> source_hash,
         merkle_root_hash |-> get_merkle_root(
             [i \in 1..Len(b.txs) |-> TxHashLittle(b.txs[i])]),
         start_time |-> b.start_time, nBits |-> b.nBits, nonce |-> b.nonce])
      : b \in Bodies }

\* The records a block file may hold next: any body, under a parent hash that
\* is the sentinel, a block already indexed, or a genesis block (indexed or
\* not); a good or a bad magic; a declared size that is the true one or
\* counts the four bytes of padding; any of the Merkle roots.
Records ==
    { [magic |-> m, block_size |-> ParsedBytes(b.txs) + d, version |-> b.version,
       prev_hash |-> p, merk_hash |-> r, start_time |-> b.start_time,
       nBits |-> b.nBits, nonce |-> b.nonce, txs |-> b.txs]
      : m \in Magics, d \in {0, 4}, b \in Bodies, r \in MerkleChoices,
        p \in {source_hash} \cup GenesisHashes \cup DOMAIN curr_hash_to_prev_hash }

(* ---------------------------- entities --------------------------------- *)

\* InputTransaction(prev_tx_hash, script, seq_num)
InputTransaction(i) ==
    [prev_tx_hash |-> i.prev_tx_hash, script |-> i.script, seq_num |-> i.seq_num]

\* OutputTransaction(satoshi_amount, script)
OutputTransaction(o) == [satoshi_amount |-> o.satoshi_amount, script |-> o.script]

\* Transaction(tx_hash_little, tx_ver_num, input_tx_count, input_transactions,
\*             output_tx_count, output_transactions, locktime)
Transaction(tx) ==
    [hash |-> TxHashLittle(tx), version |-> tx.version,
     input_tx_count |-> Len(tx.inputs),
     input_txs |-> [j \in 1..Len(tx.inputs) |-> InputTransaction(tx.inputs[j])],
     output_tx_count |-> Len(tx.outputs),
     output_txs |-> [j \in 1..Len(tx.outputs) |-> OutputTransaction(tx.outputs[j])],
     locktime |-> tx.locktime]

\* Block(ver_num, prev_hash, merk_hash, start_time, nBits, nonce, tx_count, txs):
\* a new block is off the main chain and has height 0
Block(rec) ==
    [version |-> rec.version, previous_block_header_hash |-> rec.prev_hash,
     merkle_root_hash |-> rec.merk_hash, start_time |-> rec.start_time,
     nBits |-> rec.nBits, nonce |-> rec.nonce,
     main_chain |-> FALSE, height |-> 0,
     tx_count |-> Len(rec.txs),
     txs |-> [i \in 1..Len(rec.txs) |-> Transaction(rec.txs[i])]]

(* ------------------------------ Init ----------------------------------- *)

\* no block file read
NoFile == [records |-> <<>>, slack |-> 0]

\* no response written yet
NoMessage == [status |-> 0, json |-> [error |-> ""]]

\* no helper function called
NoCall == [op |-> "none"]

\* the module is imported: the globals of blockchain.py, and the locals of
\* setup and of the request handlers before they run
Imported ==
    /\ prev_hash_to_blocks = EmptyDict
    /\ curr_hash_to_prev_hash = EmptyDict
    /\ txid_to_prev_hash = EmptyDict
    /\ block_count = 0
    /\ blockchain_height = 0
    /\ latest_block_little = EmptyString
    /\ pc = "load"
    /\ queue = <<>>
    /\ distances = EmptyDict
    /\ max_distance = -1
    /\ max_hash = EmptyString
    /\ bfs_order = <<>>
    /\ curr_hash = EmptyString
    /\ prev_hash = EmptyString
    /\ message = NoMessage
    /\ header_start = 0
    /\ file_pc = "closed"
    /\ set_log = <<>>

Init ==
    /\ Imported
    /\ data = NoFile
    /\ call = NoCall

(* ------------------------------ ingest --------------------------------- *)

\* txid_to_prev_hash when a txid already recorded keeps its entry
TxidsRecorded_FirstWins(d, rec) ==
    [t \in (DOMAIN d) \cup { TxHashLittle(rec.txs[i]) : i \in 1..Len(rec.txs) } |->
        IF t \in DOMAIN d THEN d[t] ELSE rec.prev_hash]

\* txid_to_prev_hash after the transaction loop of parse_block: every
\* transaction of the record is keyed to the record's parent hash
TxidsRecorded(d, rec) ==
    [t \in (DOMAIN d) \cup { TxHashLittle(rec.txs[i]) : i \in 1..Len(rec.txs) } |->
        IF \E i \in 1..Len(rec.txs) : TxHashLittle(rec.txs[i]) = t
        THEN rec.prev_hash ELSE d[t]]

\* prev_hash_to_blocks when the parent's list is set to the new block alone
BlockAppended_Replace(d, prev, block) == DictPut(d, prev, <<block>>)

\* prev_hash_to_blocks after the block is appended to its parent's list
BlockAppended(d, prev, block) ==
    IF prev \in DOMAIN d THEN [d EXCEPT ![prev] = Append(@, block)]
    ELSE DictPut(d, prev, <<block>>)

\* One call of parse_block on the next record of a block file, with the
\* bookkeeping load_file does when it returns.  A failed assertion ends
\* setup: nothing catches it.
parse_block(rec) ==
    LET tx_hashes == [i \in 1..Len(rec.txs) |-> TxHashLittle(rec.txs[i])]
        block == Block(rec)
    IN
    IF byte_to_hex_string_big(rec.magic) # MagicHex
    THEN /\ pc' = "failed"
         /\ UNCHANGED index_vars
    ELSE IF ParsedBytes(rec.txs) # rec.block_size
            \/ rec.merk_hash # get_merkle_root(tx_hashes)
    THEN /\ pc' = "failed"
         /\ txid_to_prev_hash' = TxidsRecorded(txid_to_prev_hash, rec)
         /\ UNCHANGED <<prev_hash_to_blocks, curr_hash_to_prev_hash, block_count>>
    ELSE /\ txid_to_prev_hash' = TxidsRecorded(txid_to_prev_hash, rec)
         /\ prev_hash_to_blocks' =
                BlockAppended(prev_hash_to_blocks, rec.prev_hash, block)
         /\ curr_hash_to_prev_hash' =
                DictPut(curr_hash_to_prev_hash, get_curr_hash_little(block),
                        rec.prev_hash)
         /\ block_count' = block_count + 1
         /\ pc' = "load"

\* load_file: one iteration of the loop over the records of a file
load_file(limit) ==
    /\ pc = "load"
    /\ block_count < limit
    /\ \E rec \in Records : parse_block(rec)
    /\ UNCHANGED <<blockchain_height, latest_block_little, bfs_vars, walk_vars,
                   message, file_vars, call, set_log>>

(* ----------------------------- resolver -------------------------------- *)

\* load_blockchain finds no further file; compute_distances_bfs starts
bfs_start ==
    /\ pc = "load"
    /\ pc' = "bfs"
    /\ queue' = <<source_hash>>
    /\ distances' = DictPut(EmptyDict, source_hash, 0)
    /\ max_distance' = -1
    /\ max_hash' = EmptyString
    /\ bfs_order' = <<>>
    /\ UNCHANGED <<index_vars, blockchain_height, latest_block_little, walk_vars,
                   message, file_vars, call, set_log>>

\* "distances[next_hash] > max_distance", with ">=" in place of ">"
LongerChain_LastWins(d, best) == d >= best

\* "distances[next_hash] > max_distance"
LongerChain(d, best) == d > best

\* "block.set_height(distances[next_hash] - 1)" without the "- 1"
HeightAtDistance_NoOffset(d) == d

\* "block.set_height(distances[next_hash] - 1)": the height set at distance d
HeightAtDistance(d) == d - 1

\* "return max_hash, max_distance - 1" without the "- 1"
LongestChainHeight_NoOffset(best) == best

\* "return max_hash, max_distance - 1": the height returned with the tip
LongestChainHeight(best) == best - 1

RECURSIVE VisitNeighbors_NoSeenCheck(_, _, _)
\* the loop "for block in blocks" without "if next_hash not in distances"
VisitNeighbors_NoSeenCheck(st, curr, i) ==
    IF i > Len(st.blocks) THEN st
    ELSE LET next_hash == get_curr_hash_little(st.blocks[i])
             d == st.distances[curr] + 1
         IN  VisitNeighbors_NoSeenCheck(
                [blocks |-> [st.blocks EXCEPT ![i].height = HeightAtDistance(d)],
                 queue |-> Append(st.queue, next_hash),
                 distances |-> DictPut(st.distances, next_hash, d),
                 max_distance |-> IF LongerChain(d, st.max_distance)
                                  THEN d ELSE st.max_distance,
                 max_hash |-> IF LongerChain(d, st.max_distance)
                              THEN next_hash ELSE st.max_hash,
                 order |-> Append(st.order, next_hash),
                 log |-> Append(st.log, [field |-> "height", prev |-> curr,
                                         index |-> i])],
                curr, i + 1)

RECURSIVE VisitNeighbors(_, _, _)
\* The loop "for block in blocks" of compute_distances_bfs from the i-th
\* neighbor on; st holds blocks, queue, distances, max_distance, max_hash,
\* the order of discovery and the log of the set_height calls.
VisitNeighbors(st, curr, i) ==
    IF i > Len(st.blocks) THEN st
    ELSE LET next_hash == get_curr_hash_little(st.blocks[i])
             d == st.distances[curr] + 1
         IN  IF next_hash \in DOMAIN st.distances
             THEN VisitNeighbors(st, curr, i + 1)
             ELSE VisitNeighbors(
                    [blocks |-> [st.blocks EXCEPT ![i].height = HeightAtDistance(d)],
                     queue |-> Append(st.queue, next_hash),
                     distances |-> DictPut(st.distances, next_hash, d),
                     max_distance |-> IF LongerChain(d, st.max_distance)
                                      THEN d ELSE st.max_distance,
                     max_hash |-> IF LongerChain(d, st.max_distance)
                                  THEN next_hash ELSE st.max_hash,
                     order |-> Append(st.order, next_hash),
                     log |-> Append(st.log, [field |-> "height", prev |-> curr,
                                             index |-> i])],
                    curr, i + 1)

\* compute_distances_bfs: one iteration of "while len(queue) != 0"
bfs_step ==
    /\ pc = "bfs"
    /\ queue # <<>>
    /\ LET curr == Head(queue)
       IN  IF curr \notin DOMAIN prev_hash_to_blocks
           THEN /\ queue' = Tail(queue)
                /\ UNCHANGED <<prev_hash_to_blocks, distances, max_distance,
                               max_hash, bfs_order, set_log>>
           ELSE \E st \in { VisitNeighbors(
                            [blocks |-> prev_hash_to_blocks[curr],
                             queue |-> Tail(queue), distances |-> distances,
                             max_distance |-> max_distance, max_hash |-> max_hash,
                             order |-> bfs_order, log |-> set_log], curr, 1) } :
                    /\ prev_hash_to_blocks' =
                           [prev_hash_to_blocks EXCEPT ![curr] = st.blocks]
                    /\ queue' = st.queue
                    /\ distances' = st.distances
                    /\ max_distance' = st.max_distance
                    /\ max_hash' = st.max_hash
                    /\ bfs_order' = st.order
                    /\ set_log' = st.log
    /\ UNCHANGED <<curr_hash_to_prev_hash, txid_to_prev_hash, block_count,
                   blockchain_height, latest_block_little, pc, walk_vars, message,
                   file_vars, call>>

\* compute_distances_bfs returns; setup records the tip and the height and
\* looks up the parent of the tip
bfs_return ==
    /\ pc = "bfs"
    /\ queue = <<>>
    /\ blockchain_height' = LongestChainHeight(max_distance)
    /\ latest_block_little' = max_hash
    /\ curr_hash' = max_hash
    /\ IF max_hash \in DOMAIN curr_hash_to_prev_hash
       THEN /\ prev_hash' = curr_hash_to_prev_hash[max_hash]
            /\ pc' = "walk"
       ELSE /\ prev_hash' = prev_hash
            /\ pc' = "failed"
    /\ UNCHANGED <<index_vars, bfs_vars, message, file_vars, call, set_log>>

RECURSIVE FirstWithHash(_, _, _)
\* index of the first block of the list, from the i-th on, whose header hash
\* is h; 0 when there is none
FirstWithHash(blocks, h, i) ==
    IF i > Len(blocks) THEN 0
    ELSE IF get_curr_hash_little(blocks[i]) = h THEN i
    ELSE FirstWithHash(blocks, h, i + 1)

\* the same loop without the "break": every block with that hash is flagged
FlagCurrent_NoBreak(blocks, h) ==
    [i \in 1..Len(blocks) |->
        IF get_curr_hash_little(blocks[i]) = h
        THEN [blocks[i] EXCEPT !.main_chain = TRUE] ELSE blocks[i]]

\* "for block in blocks: if block.get_curr_hash_little() == curr_hash:
\*  block.set_main_chain(); break"
FlagCurrent(blocks, h) ==
    LET i == FirstWithHash(blocks, h, 1)
    IN  IF i = 0 THEN blocks ELSE [blocks EXCEPT ![i].main_chain = TRUE]

\* setup: one iteration of "while prev_hash != source_hash"
walk_step ==
    /\ pc = "walk"
    /\ prev_hash # source_hash
    /\ IF prev_hash \notin DOMAIN prev_hash_to_blocks
       THEN /\ pc' = "failed"
            /\ UNCHANGED <<prev_hash_to_blocks, walk_vars, set_log>>
       ELSE /\ prev_hash_to_blocks' =
                  [prev_hash_to_blocks EXCEPT
                      ![prev_hash] = FlagCurrent(@, curr_hash)]
            /\ LET i == FirstWithHash(prev_hash_to_blocks[prev_hash], curr_hash, 1)
               IN  set_log' = IF i = 0 THEN set_log
                              ELSE Append(set_log, [field |-> "main_chain",
                                                    prev |-> prev_hash, index |-> i])
            /\ curr_hash' = prev_hash
            /\ IF prev_hash \in DOMAIN curr_hash_to_prev_hash
               THEN /\ prev_hash' = curr_hash_to_prev_hash[prev_hash]
                    /\ pc' = "walk"
               ELSE /\ prev_hash' = prev_hash
                    /\ pc' = "failed"
    /\ UNCHANGED <<curr_hash_to_prev_hash, txid_to_prev_hash, block_count,
                   blockchain_height, latest_block_little, bfs_vars, message,
                   file_vars, call>>

\* "blocks[0].set_main_chain()" applied to every block of the list
FlagGenesis_All(blocks) == [i \in 1..Len(blocks) |-> [blocks[i] EXCEPT !.main_chain = TRUE]]

\* "blocks[0].set_main_chain()"
FlagGenesis(blocks) == [blocks EXCEPT ![1].main_chain = TRUE]

\* setup: the loop ends, the genesis block is flagged, setup returns
walk_genesis ==
    /\ pc = "walk"
    /\ prev_hash = source_hash
    /\ IF source_hash \notin DOMAIN prev_hash_to_blocks
       THEN /\ pc' = "failed"
            /\ UNCHANGED <<prev_hash_to_blocks, set_log>>
       ELSE /\ prev_hash_to_blocks' =
                  [prev_hash_to_blocks EXCEPT ![source_hash] = FlagGenesis(@)]
            /\ set_log' = Append(set_log, [field |-> "main_chain",
                                           prev |-> source_hash, index |-> 1])
            /\ pc' = "done"
    /\ UNCHANGED <<curr_hash_to_prev_hash, txid_to_prev_hash, block_count,
                   blockchain_height, latest_block_little, bfs_vars, walk_vars,
                   message, file_vars, call>>

\* the main thread inside blockchain.setup
setup(limit) ==
    \/ load_file(limit)
    \/ bfs_start
    \/ bfs_step
    \/ bfs_return
    \/ walk_step
    \/ walk_genesis

Next == setup(MaxBlocks)

Spec == Init /\ [][Next]_vars

\* the steps of setup after load_blockchain: compute_distances_bfs and the
\* backward walk
resolve == bfs_step \/ bfs_return \/ walk_step \/ walk_genesis

NextResolve == setup(MaxResolveBlocks)

\* setup on fewer records, the main thread running on until setup returns or
\* raises once the resolver has started
SpecResolve == Init /\ [][NextResolve]_vars /\ WF_vars(resolve)

(* ----------------------------- accessors ------------------------------- *)

\* the hash taken as it came, without "[::-1]"
ToLittle_NotReversed(hash_big) == hash_big

\* hash_big.decode('hex')[::-1].encode('hex_codec')
ToLittle(hash_big) == Reverse(hash_big)

\* the block the by-hash accessors return fields of: the first block in the
\* list of the recorded parent whose header hash is the one asked for; the
\* empty list when the loop ends without finding it
LookupBlock(block_hash_little) ==
    LET blocks == prev_hash_to_blocks[curr_hash_to_prev_hash[block_hash_little]]
        i == FirstWithHash(blocks, block_hash_little, 1)
    IN  IF i = 0 THEN <<>> ELSE <<blocks[i]>>

HeaderNotFound == <<-1, EmptyString, EmptyString, -1, -1, -1>>

get_block_header(block_hash_big) ==
    LET block_hash_little == ToLittle(block_hash_big)
    IN  IF block_hash_little \notin DOMAIN curr_hash_to_prev_hash
        THEN HeaderNotFound
        ELSE LET found == LookupBlock(block_hash_little)
             IN  IF found = <<>> THEN HeaderNotFound
                 ELSE <<LittleFieldInt(found[1].version),
                        Reverse(found[1].previous_block_header_hash),
                        Reverse(found[1].merkle_root_hash),
                        LittleFieldInt(found[1].start_time),
                        LittleFieldInt(found[1].nBits),
                        LittleFieldInt(found[1].nonce)>>

get_block_height(block_hash_big) ==
    LET block_hash_little == ToLittle(block_hash_big)
    IN  IF block_hash_little \notin DOMAIN curr_hash_to_prev_hash
        THEN -1
        ELSE LET found == LookupBlock(block_hash_little)
             IN  IF found = <<>> THEN -1 ELSE found[1].height

get_main_chain(block_hash_big) ==
    LET block_hash_little == ToLittle(block_hash_big)
    IN  IF block_hash_little \notin DOMAIN curr_hash_to_prev_hash
        THEN FALSE
        ELSE LET found == LookupBlock(block_hash_little)
             IN  IF found = <<>> THEN FALSE ELSE found[1].main_chain

get_latest_block == Reverse(latest_block_little)

get_latest_height == blockchain_height

\* 100000000 satoshi = 1 BTC
SatoshiPerBtc == 100000000

\* the sum of "satoshi / 100000000.0" over the outputs, as the number of
\* satoshi over the number of satoshi in one BTC
BtcAmount(output_txs) ==
    <<SumAll([j \in 1..Len(output_txs) |->
                LittleFieldInt(output_txs[j].satoshi_amount)]),
      SatoshiPerBtc>>

get_block_transactions(block_hash_big) ==
    LET block_hash_little == ToLittle(block_hash_big)
    IN  IF block_hash_little \notin DOMAIN curr_hash_to_prev_hash
        THEN <<-1, <<>>>>
        ELSE LET found == LookupBlock(block_hash_little)
             IN  IF found = <<>> THEN <<-1, <<>>>>
                 ELSE <<found[1].tx_count,
                        [i \in 1..found[1].tx_count |->
                            <<Reverse(found[1].txs[i].hash),
                              BtcAmount(found[1].txs[i].output_txs)>>]>>

RECURSIVE FirstTxWithHash(_, _, _)
\* index of the first transaction of the list, from the i-th on, whose txid
\* is h; 0 when there is none
FirstTxWithHash(txs, h, i) ==
    IF i > Len(txs) THEN 0
    ELSE IF txs[i].hash = h THEN i
    ELSE FirstTxWithHash(txs, h, i + 1)

RECURSIVE FirstBlockWithTx(_, _, _)
\* index of the first block of the list, from the i-th on, that holds a
\* transaction with txid h; 0 when there is none
FirstBlockWithTx(blocks, h, i) ==
    IF i > Len(blocks) THEN 0
    ELSE IF FirstTxWithHash(blocks[i].txs, h, 1) # 0 THEN i
    ELSE FirstBlockWithTx(blocks, h, i + 1)

\* the block and the transaction the by-txid accessors return fields of; the
\* empty list when the loops end without finding one, "KeyError" when the
\* recorded parent has no list of blocks
LookupTx(tx_hash_little) ==
    LET prev == txid_to_prev_hash[tx_hash_little]
    IN  IF prev \notin DOMAIN prev_hash_to_blocks THEN <<"KeyError">>
        ELSE LET blocks == prev_hash_to_blocks[prev]
                 b == FirstBlockWithTx(blocks, tx_hash_little, 1)
             IN  IF b = 0 THEN <<>>
                 ELSE <<blocks[b],
                        blocks[b].txs[FirstTxWithHash(blocks[b].txs,
                                                      tx_hash_little, 1)]>>

TxInfoNotFound == <<EmptyString, -1, -1, -1, <<0, SatoshiPerBtc>>, -1>>

get_transaction_info(tx_hash_big) ==
    LET tx_hash_little == ToLittle(tx_hash_big)
    IN  IF tx_hash_little \notin DOMAIN txid_to_prev_hash
        THEN TxInfoNotFound
        ELSE LET found == LookupTx(tx_hash_little)
             IN  IF found = <<>> THEN TxInfoNotFound
                 ELSE IF Len(found) = 1 THEN found
                 ELSE <<get_curr_hash_big(found[1]),
                        LittleFieldInt(found[2].version),
                        found[2].input_tx_count,
                        found[2].output_tx_count,
                        BtcAmount(found[2].output_txs),
                        LittleFieldInt(found[2].locktime)>>

get_transaction_inputs(tx_hash_big) ==
    LET tx_hash_little == ToLittle(tx_hash_big)
    IN  IF tx_hash_little \notin DOMAIN txid_to_prev_hash
        THEN <<-1, <<>>>>
        ELSE LET found == LookupTx(tx_hash_little)
             IN  IF found = <<>> THEN <<-1, <<>>>>
                 ELSE IF Len(found) = 1 THEN found
                 ELSE <<found[2].input_tx_count,
                        [j \in 1..found[2].input_tx_count |->
                            <<Reverse(found[2].input_txs[j].prev_tx_hash),
                              Reverse(found[2].input_txs[j].script),
                              LittleFieldInt(found[2].input_txs[j].seq_num)>>]>>

get_transaction_outputs(tx_hash_big) ==
    LET tx_hash_little == ToLittle(tx_hash_big)
    IN  IF tx_hash_little \notin DOMAIN txid_to_prev_hash
        THEN <<-1, <<>>>>
        ELSE LET found == LookupTx(tx_hash_little)
             IN  IF found = <<>> THEN <<-1, <<>>>>
                 ELSE IF Len(found) = 1 THEN found
                 ELSE <<found[2].output_tx_count,
                        [j \in 1..found[2].output_tx_count |->
                            <<<<LittleFieldInt(found[2].output_txs[j].satoshi_amount),
                                SatoshiPerBtc>>,
                              Reverse(found[2].output_txs[j].script)>>]>>

(* --------------------------- request handler --------------------------- *)

blockheight_endpoint == "/blockheight"
mainchain_endpoint == "/mainchain"
blockheader_endpoint == "/blockheader"
latestblock_endpoint == "/latestblock"
latestheight_endpoint == "/latestheight"
blocktransactions_endpoint == "/blocktransactions"
transactioninfo_endpoint == "/transactioninfo"
transactioninputs_endpoint == "/transactioninputs"
transactionoutputs_endpoint == "/transactionoutputs"

API_endpoints ==
    { blockheight_endpoint, mainchain_endpoint, blockheader_endpoint,
      latestblock_endpoint, latestheight_endpoint, blocktransactions_endpoint,
      transactioninfo_endpoint, transactioninputs_endpoint,
      transactionoutputs_endpoint }

\* the endpoints that take a hash
HashEndpoints ==
    { blockheight_endpoint, mainchain_endpoint, blockheader_endpoint,
      blocktransactions_endpoint, transactioninfo_endpoint,
      transactioninputs_endpoint, transactionoutputs_endpoint }

\* The hashes a client may ask for, in display byte order: the sentinel, the
\* genesis blocks, every block and every transaction indexed so far, and the
\* two transactions whether indexed or not.
QueryHashes ==
    { Reverse(h) : h \in {source_hash} \cup GenesisHashes
                          \cup DOMAIN curr_hash_to_prev_hash
                          \cup DOMAIN txid_to_prev_hash
                          \cup {TxHashLittle(CoinbaseTx), TxHashLittle(SpendTx)} }

\* The query strings of a request: a hash of 64 hex digits, the empty
\* string, or a string that is neither.
Queries ==
    { [wellformed |-> TRUE, text |-> h] : h \in QueryHashes }
    \cup { [wellformed |-> FALSE, text |-> EmptyString],
           [wellformed |-> FALSE, text |-> <<0, 0>>] }

Response(status, json) == [status |-> status, json |-> json]

\* send_error(code)
ErrorResponse(status) == Response(status, [error |-> "send_error"])

\* the message do_GET builds once the endpoint and the query are accepted
Message(endpoint, hash_big_endian) ==
    IF endpoint = blockheight_endpoint THEN
        LET blockheight == get_block_height(hash_big_endian)
        IN  IF blockheight = -1 THEN [error |-> "Invalid Block Hash"]
            ELSE [height |-> blockheight]
    ELSE IF endpoint = mainchain_endpoint THEN
        [main_chain |-> get_main_chain(hash_big_endian)]
    ELSE IF endpoint = blockheader_endpoint THEN
        LET r == get_block_header(hash_big_endian)
        IN  IF r[1] = -1 THEN [error |-> "Invalid Block Hash"]
            ELSE [version |-> r[1], prev_block |-> r[2], mrkl_root |-> r[3],
                  time |-> r[4], bits |-> r[5], nonce |-> r[6]]
    ELSE IF endpoint = latestblock_endpoint THEN
        [hash |-> get_latest_block]
    ELSE IF endpoint = latestheight_endpoint THEN
        [height |-> get_latest_height]
    ELSE IF endpoint = blocktransactions_endpoint THEN
        LET r == get_block_transactions(hash_big_endian)
        IN  IF r[1] = -1 THEN [error |-> "Invalid Block Hash"]
            ELSE [tx_count |-> r[1],
                  transactions |-> [i \in 1..r[1] |->
                      [tx_hash |-> r[2][i][1], value |-> r[2][i][2]]]]
    ELSE IF endpoint = transactioninfo_endpoint THEN
        LET r == get_transaction_info(hash_big_endian)
        IN  IF r[2] = -1 THEN [error |-> "Invalid Transaction Hash"]
            ELSE [block_hash |-> r[1], version |-> r[2], input_tx_count |-> r[3],
                  output_tx_count |-> r[4], value |-> r[5], lock_time |-> r[6]]
    ELSE IF endpoint = transactioninputs_endpoint THEN
        LET r == get_transaction_inputs(hash_big_endian)
        IN  IF r[1] = -1 THEN [error |-> "Invalid Transaction Hash"]
            ELSE [input_tx_count |-> r[1],
                  input_transactions |-> [i \in 1..r[1] |->
                      [prev_hash |-> r[2][i][1], sig_script |-> r[2][i][2],
                       seq_num |-> r[2][i][3]]]]
    ELSE
        LET r == get_transaction_outputs(hash_big_endian)
        IN  IF r[1] = -1 THEN [error |-> "Invalid Transaction Hash"]
            ELSE [output_tx_count |-> r[1],
                  output_transactions |-> [i \in 1..r[1] |->
                      [value |-> r[2][i][1], sig_script |-> r[2][i][2]]]]

\* whether the accessor behind the endpoint raises instead of returning
Raises(endpoint, hash_big_endian) ==
    /\ endpoint \in { transactioninfo_endpoint, transactioninputs_endpoint,
                      transactionoutputs_endpoint }
    /\ ToLittle(hash_big_endian) \in DOMAIN txid_to_prev_hash
    /\ txid_to_prev_hash[ToLittle(hash_big_endian)] \notin DOMAIN prev_hash_to_blocks

\* Handler.do_GET: a request thread serves one GET request.  The server thread
\* runs from before setup starts until the process ends.
do_GET ==
    /\ pc # "failed"
    /\ \E endpoint \in API_endpoints \cup {"/"}, query \in Queries :
         message' =
            IF endpoint \notin API_endpoints THEN ErrorResponse(404)
            ELSE IF endpoint \in HashEndpoints /\ ~query.wellformed
                 THEN ErrorResponse(400)
            ELSE IF endpoint \notin HashEndpoints /\ query.text # EmptyString
                 THEN ErrorResponse(400)
            ELSE IF Raises(endpoint, query.text) THEN ErrorResponse(500)
            ELSE Response(200, Message(endpoint, query.text))
    /\ UNCHANGED <<index_vars, blockchain_height, latest_block_little, pc,
                   bfs_vars, walk_vars, file_vars, call, set_log>>

NextServe == setup(MaxServeBlocks) \/ do_GET

SpecServe == Init /\ [][NextServe]_vars

\* load_blockchain alone: the records of the block files are decoded one
\* after the other until one makes parse_block raise
NextIngest == load_file(MaxIngestBlocks)

SpecIngest == Init /\ [][NextIngest]_vars

(* ------------------------- records in a file --------------------------- *)

\* "size(magic_num) + size(blocksize) + size(header)" of the end-of-file test
MinRecordBytes == 4 + 4 + 80

\* the bytes a record takes in the file: the magic number, the size field,
\* and everything parse_block walks over from the header start
RecordBytes(rec) == 4 + 4 + ParsedBytes(rec.txs)

\* the zero bytes a file may hold after its last record: none, and one fewer
\* than, as many as, and one more than the end-of-file test asks for
Slacks == { 0, MinRecordBytes - 1, MinRecordBytes, MinRecordBytes + 1 }

\* the block files: up to MaxFileRecords records back to back, then the slack
Files ==
    { [records |-> rs, slack |-> t] :
        rs \in UNION { [1..n -> Records] : n \in 0..MaxFileRecords },
        t \in Slacks }

RECURSIVE OffsetOf(_, _)
\* the offset of the k-th record of the file; of the slack, for k one past
\* the last record
OffsetOf(records, k) ==
    IF k = 1 THEN 0 ELSE OffsetOf(records, k - 1) + RecordBytes(records[k - 1])

\* os.stat(filename).st_size
file_end == OffsetOf(data.records, Len(data.records) + 1) + data.slack

\* What parse_block reads at an offset: the record that starts there, or, in
\* the slack, the zero bytes the file still has for the magic number.
RecordAt(nth_byte) ==
    IF \E k \in 1..Len(data.records) : OffsetOf(data.records, k) = nth_byte
    THEN data.records[CHOOSE k \in 1..Len(data.records) :
                          OffsetOf(data.records, k) = nth_byte]
    ELSE [magic |-> [i \in 1..(IF file_end - nth_byte < 4
                               THEN file_end - nth_byte ELSE 4) |-> 0]]

\* the state before setup with a block file on disk
InitFile ==
    /\ Imported
    /\ data \in Files
    /\ call = NoCall

\* load_file: the file is read and the loop is entered
load_file_open ==
    /\ pc = "load"
    /\ file_pc = "closed"
    /\ file_pc' = "loop"
    /\ header_start' = 0
    /\ UNCHANGED <<index_vars, blockchain_height, latest_block_little, pc,
                   bfs_vars, walk_vars, message, data, call, set_log>>

\* load_file: one iteration of "while True": parse_block at header_start,
\* the count, the advance and the end-of-file test
load_file_iter ==
    /\ pc = "load"
    /\ file_pc = "loop"
    /\ LET rec == RecordAt(header_start)
       IN  /\ parse_block(rec)
           /\ IF pc' = "failed"
              THEN UNCHANGED <<header_start, file_pc>>
              ELSE /\ header_start' = header_start + (4 + rec.block_size + 4)
                   /\ file_pc' = IF header_start' + MinRecordBytes >= file_end
                                 THEN "returned" ELSE "loop"
    /\ UNCHANGED <<blockchain_height, latest_block_little, bfs_vars, walk_vars,
                   message, data, call, set_log>>

NextFile == load_file_open \/ load_file_iter

SpecFile == InitFile /\ [][NextFile]_vars

(* --------------------------- helper calls ------------------------------ *)

\* block[a:b]: the bytes from offset a up to, not including, offset b, as far
\* as the block has them
Slice(block, a, b) ==
    SubSeq(block, a + 1, IF b < Len(block) THEN b ELSE Len(block))

\* A Python integer of up to 64 bits, kept as four 16-bit limbs, the least
\* significant first: struct.unpack of "<B", "<H", "<I" and "<Q"
unpack_B(b) == <<b[1], 0, 0, 0>>

\* struct.unpack("<H", b) with the bytes taken most significant first
unpack_H_BigEndian(b) == <<b[2] + 256 * b[1], 0, 0, 0>>

unpack_H(b) == <<b[1] + 256 * b[2], 0, 0, 0>>

unpack_I(b) == <<b[1] + 256 * b[2], b[3] + 256 * b[4], 0, 0>>

unpack_Q(b) ==
    <<b[1] + 256 * b[2], b[3] + 256 * b[4], b[5] + 256 * b[6], b[7] + 256 * b[8]>>

\* "return data, num_byte_parsed"
Returned(value, num_byte_parsed) ==
    [outcome |-> "returned", data |-> value, num_byte_parsed |-> num_byte_parsed]

\* struct.error: unpack is given fewer bytes than the format needs
StructError == [outcome |-> "struct.error"]

\* parse_var_len_int(block, nth_byte)
parse_var_len_int(block, nth_byte) ==
    LET first == Slice(block, nth_byte, nth_byte + 1)
    IN  IF Len(first) # 1 THEN StructError
        ELSE LET first_byte == first[1]
             IN  IF first_byte < 253 THEN Returned(unpack_B(first), 1)
                 ELSE IF first_byte = 253 THEN
                     LET b == Slice(block, nth_byte + 1, nth_byte + 3)
                     IN  IF Len(b) # 2 THEN StructError ELSE Returned(unpack_H(b), 3)
                 ELSE IF first_byte = 254 THEN
                     LET b == Slice(block, nth_byte + 1, nth_byte + 5)
                     IN  IF Len(b) # 4 THEN StructError ELSE Returned(unpack_I(b), 5)
                 ELSE IF first_byte = 255 THEN
                     LET b == Slice(block, nth_byte + 1, nth_byte + 9)
                     IN  IF Len(b) # 8 THEN StructError ELSE Returned(unpack_Q(b), 9)
                 ELSE Returned(<<0, 0, 0, 0>>, 0)

\* the hashes get_merkle_root is called on: the txids of the two
\* transactions and one more hash
Leaves == { TxHashLittle(CoinbaseTx), TxHashLittle(SpendTx), sha256d(<<>>) }

\* the non-empty lists of hashes
HashLists == UNION { [1..n -> Leaves] : n \in 1..MaxHashes }

\* the first bytes parse_var_len_int may find: below 0xFD, and 0xFD, 0xFE, 0xFF
FirstBytes == { 0, 252, 253, 254, 255 }

\* the bytes at the cursor: nothing; a first byte and up to MaxTailBytes
\* bytes, each 0x00 or 0xFF; a first byte and a few tails with other bytes
ByteStrings ==
    {<<>>} \cup
    { <<f>> \o t : f \in FirstBytes,
                   t \in UNION { [1..n -> {0, 255}] : n \in 0..MaxTailBytes } }
    \cup
    { <<f>> \o t \o u : f \in FirstBytes,
                        t \in {<<253, 0>>, <<0, 0, 1, 0>>, <<0, 0, 0, 0>>},
                        u \in {<<>>, <<0, 0, 0, 0>>, <<1, 0, 0, 0>>} }

\* the calls: get_merkle_root on a list of hashes; parse_var_len_int at the
\* start of a block or after one byte of it
Calls ==
    { [op |-> "get_merkle_root", child_hashes |-> h, outcome |-> "pending"]
        : h \in HashLists }
    \cup
    { [op |-> "parse_var_len_int", block |-> [i \in 1..n |-> 255] \o b,
       nth_byte |-> n, outcome |-> "pending"] : n \in {0, 1}, b \in ByteStrings }

InitCalls ==
    /\ Imported
    /\ data = NoFile
    /\ call \in Calls

\* get_merkle_root(child_hashes) returns
call_get_merkle_root ==
    /\ call.op = "get_merkle_root"
    /\ call.outcome = "pending"
    /\ call' = [op |-> call.op, child_hashes |-> call.child_hashes,
                outcome |-> "returned",
                value |-> get_merkle_root(call.child_hashes)]
    /\ UNCHANGED <<index_vars, blockchain_height, latest_block_little, pc,
                   bfs_vars, walk_vars, message, file_vars, set_log>>

\* parse_var_len_int(block, nth_byte) returns or raises
call_parse_var_len_int ==
    /\ call.op = "parse_var_len_int"
    /\ call.outcome = "pending"
    /\ LET r == parse_var_len_int(call.block, call.nth_byte)
       IN  call' = IF r.outcome = "returned"
                   THEN [op |-> call.op, block |-> call.block,
                         nth_byte |-> call.nth_byte, outcome |-> "returned",
                         data |-> r.data, num_byte_parsed |-> r.num_byte_parsed]
                   ELSE [op |-> call.op, block |-> call.block,
                         nth_byte |-> call.nth_byte, outcome |-> r.outcome]
    /\ UNCHANGED <<index_vars, blockchain_height, latest_block_little, pc,
                   bfs_vars, walk_vars, message, file_vars, set_log>>

NextCalls == call_get_merkle_root \/ call_parse_var_len_int

SpecCalls == InitCalls /\ [][NextCalls]_vars

\* a function that is called goes on running
FairSpecCalls == SpecCalls /\ WF_vars(NextCalls)

(* ====================== properties of the resolver ===================== *)

\* children_of(prev_hash): the blocks indexed under a parent hash
children_of(p) ==
    IF p \in DOMAIN prev_hash_to_blocks THEN prev_hash_to_blocks[p] ELSE <<>>

\* the places blocks are stored at: <<parent hash, index in the parent's list>>
Stored ==
    UNION { { <<p, i>> : i \in 1..Len(prev_hash_to_blocks[p]) }
            : p \in DOMAIN prev_hash_to_blocks }

BlockAt(pos) == prev_hash_to_blocks[pos[1]][pos[2]]

HashAt(pos) == get_curr_hash_little(BlockAt(pos))

\* whether no earlier block of the same list has the same header hash
IsFirstCopy(pos) == FirstWithHash(prev_hash_to_blocks[pos[1]], HashAt(pos), 1) = pos[2]

RECURSIVE Depth(_)
\* the number of parent_of steps from h to the sentinel; -1 when following
\* parent_of from h does not reach the sentinel
Depth(h) ==
    IF h = source_hash THEN 0
    ELSE IF h \notin DOMAIN curr_hash_to_prev_hash THEN -1
    ELSE LET d == Depth(curr_hash_to_prev_hash[h])
         IN  IF d < 0 THEN -1 ELSE d + 1

RECURSIVE PathSet(_)
\* the header hashes visited from h along parent_of, the sentinel excluded
PathSet(h) ==
    IF h = source_hash \/ h \notin DOMAIN curr_hash_to_prev_hash THEN {}
    ELSE {h} \cup PathSet(curr_hash_to_prev_hash[h])

\* the greatest depth of a block reachable from the sentinel; 0 without one
MaxDepth ==
    LET ds == { Depth(HashAt(pos)) : pos \in Stored } \cup {0}
    IN  CHOOSE d \in ds : \A e \in ds : e <= d

\* the tip the last run of setup recorded, in internal byte order
Tip == ToLittle(get_latest_block)

\* C1 (as claimed): after setup, following parent_of from latest_tip()
\* reaches the sentinel, every block visited has main_chain = true, and
\* the number of blocks visited is latest_height() + 1.
C1_MainChainConnectivity ==
    pc = "done" =>
        /\ Depth(Tip) >= 1
        /\ \A h \in PathSet(Tip) : get_main_chain(Reverse(h))
        /\ Depth(Tip) = get_latest_height + 1

\* C2: after setup, latest_tip() is a block reachable from the sentinel
\* whose height is latest_height(), and no block reachable from the
\* sentinel has a greater height, neither as stored nor as counted along
\* parent_of.
C2_LongestChain ==
    pc = "done" =>
        /\ Tip \in DOMAIN curr_hash_to_prev_hash
        /\ Depth(Tip) >= 1
        /\ get_block_height(get_latest_block) = get_latest_height
        /\ Depth(Tip) - 1 = get_latest_height
        /\ \A pos \in Stored :
              Depth(HashAt(pos)) >= 1 =>
                 /\ BlockAt(pos).height <= get_latest_height
                 /\ Depth(HashAt(pos)) - 1 <= get_latest_height

\* a run of setup that ended with a fork below the tip's height
C2_Witness ==
    /\ pc = "done"
    /\ get_latest_height = 2
    /\ \E pos \in Stored : Depth(HashAt(pos)) = 2 /\ HashAt(pos) \notin PathSet(Tip)

\* C3 (as claimed): once the resolver has run, every block whose parent is the
\* sentinel has height 0 and every other block reachable from the sentinel
\* has height 1 + the height of the block whose header hash is its parent
\* hash.
C3_HeightAsClaimed ==
    pc \in {"walk", "done"} =>
        \A pos \in Stored :
            IF pos[1] = source_hash THEN BlockAt(pos).height = 0
            ELSE Depth(HashAt(pos)) >= 1 =>
                    BlockAt(pos).height = 1 + get_block_height(Reverse(pos[1]))

\* C3 (amended): once the resolver has run, every block whose parent is the
\* sentinel has height 0; every other block reachable from the sentinel
\* that is the first one stored with its header hash has height 1 + the
\* height of the first block stored with its parent hash; every later
\* copy of a block has height 0.
C3_Height ==
    pc \in {"walk", "done"} =>
        \A pos \in Stored :
            IF pos[1] = source_hash \/ ~IsFirstCopy(pos) THEN BlockAt(pos).height = 0
            ELSE Depth(HashAt(pos)) >= 1 =>
                    /\ BlockAt(pos).height = 1 + get_block_height(Reverse(pos[1]))
                    /\ BlockAt(pos).height = Depth(HashAt(pos)) - 1

\* the resolver has run over a chain of three blocks and a second copy of a
\* block that is not a genesis block
C3_Witness ==
    /\ pc \in {"walk", "done"}
    /\ \E pos \in Stored : BlockAt(pos).height = 2
    /\ \E pos \in Stored : pos[1] # source_hash /\ ~IsFirstCopy(pos)
                           /\ Depth(HashAt(pos)) >= 1

RECURSIVE IndexPath(_)
\* the way from the sentinel to h, as the index of each block on it in the
\* list of its parent (the index of the first block with that hash)
IndexPath(h) ==
    IF h = source_hash \/ h \notin DOMAIN curr_hash_to_prev_hash THEN <<>>
    ELSE Append(IndexPath(curr_hash_to_prev_hash[h]),
                FirstWithHash(children_of(curr_hash_to_prev_hash[h]), h, 1))

\* a comes before b, for index paths of one length
Before(a, b) ==
    \E i \in 1..Len(a) : a[i] < b[i] /\ \A j \in 1..(i - 1) : a[j] = b[j]

\* the header hashes of the reachable blocks of greatest depth
Deepest == { HashAt(pos) : pos \in { q \in Stored : Depth(HashAt(q)) = MaxDepth } }

\* C4: when setup is done, the tip is the block of greatest depth that a
\* breadth-first traversal from the sentinel, taking children in insertion
\* order, meets first; it is the first hash of that depth BFS enqueued;
\* every other stored block of that depth is off the main chain.  The tip
\* is thereby a function of the index alone.
C4_TieBreak ==
    pc = "done" =>
        /\ Tip \in Deepest
        /\ \A g \in Deepest \ {Tip} : Before(IndexPath(Tip), IndexPath(g))
        /\ \E k \in 1..Len(bfs_order) :
              /\ bfs_order[k] = Tip
              /\ \A j \in 1..(k - 1) : Depth(bfs_order[j]) < MaxDepth
        /\ \A pos \in Stored :
              (Depth(HashAt(pos)) = MaxDepth /\ ~(HashAt(pos) = Tip /\ IsFirstCopy(pos)))
                 => ~BlockAt(pos).main_chain

\* setup is done over an index with two blocks of the greatest depth that
\* have different parents
C4_Witness ==
    /\ pc = "done"
    /\ MaxDepth = 2
    /\ \E g \in Deepest \ {Tip} :
          curr_hash_to_prev_hash[g] # curr_hash_to_prev_hash[Tip]

\* C5 (as claimed): after setup, a stored block has main_chain = true only if
\* it lies on the parent_of path from latest_tip() to the sentinel.
C5_ForkHandling ==
    pc = "done" =>
        \A pos \in Stored : BlockAt(pos).main_chain => HashAt(pos) \in PathSet(Tip)

\* C6: after setup, exactly one stored block has main_chain = true and
\* height latest_height().
C6_UniqueTip ==
    pc = "done" =>
        Cardinality({ pos \in Stored :
                        /\ BlockAt(pos).main_chain
                        /\ BlockAt(pos).height = get_latest_height }) = 1

\* setup is done over an index that holds the tip twice and another block
\* of the tip's depth
C6_Witness ==
    /\ pc = "done"
    /\ \E pos \in Stored : HashAt(pos) = Tip /\ ~IsFirstCopy(pos)
    /\ Deepest # {Tip}

(* ======================= properties of the index ======================= *)

\* the txids of the transactions of a block
TxidsOf(b) == { b.txs[i].hash : i \in 1..Len(b.txs) }

\* every stored block lies in the list of its own parent hash, and the
\* child-to-parent map holds exactly the header hashes of the stored blocks,
\* each with the parent hash of every block that has it
IndexConsistent ==
    /\ \A pos \in Stored :
          /\ BlockAt(pos).previous_block_header_hash = pos[1]
          /\ HashAt(pos) \in DOMAIN curr_hash_to_prev_hash
          /\ curr_hash_to_prev_hash[HashAt(pos)] = pos[1]
    /\ DOMAIN curr_hash_to_prev_hash = { HashAt(pos) : pos \in Stored }
    /\ \A p \in DOMAIN prev_hash_to_blocks : prev_hash_to_blocks[p] # <<>>

\* a step in which parse_block returned
Inserted == pc = "load" /\ block_count' = block_count + 1

\* the step appends one new block to the list of its parent hash, leaves
\* every earlier entry of every list in place, and records the block's
\* parent
InsertAppends ==
    \E p \in DOMAIN prev_hash_to_blocks' :
        LET new == prev_hash_to_blocks'[p]
            b == new[Len(new)]
        IN  /\ new = Append(children_of(p), b)
            /\ b.previous_block_header_hash = p
            /\ ~b.main_chain /\ b.height = 0
            /\ DOMAIN prev_hash_to_blocks' = DOMAIN prev_hash_to_blocks \cup {p}
            /\ \A q \in DOMAIN prev_hash_to_blocks' \ {p} :
                  prev_hash_to_blocks'[q] = prev_hash_to_blocks[q]
            /\ curr_hash_to_prev_hash' =
                  DictPut(curr_hash_to_prev_hash, get_curr_hash_little(b), p)

\* C7: every successful insert appends the block to the list of its parent
\* hash and changes no other entry, so that children_of(p) is the sequence
\* of ingested blocks with parent hash p in insertion order; parent_of(h)
\* is the parent hash of every stored block with header hash h.
C7_ChainIndex == [] IndexConsistent /\ [][Inserted => InsertAppends]_vars

\* ingest has stored two different blocks and a second copy of one of them
\* under one parent, and a block under another parent
C7_Witness ==
    /\ pc = "load"
    /\ \E p \in DOMAIN prev_hash_to_blocks :
          /\ Len(prev_hash_to_blocks[p]) = 3
          /\ Cardinality({ HashAt(<<p, i>>) : i \in 1..3 }) = 2
    /\ Cardinality(DOMAIN prev_hash_to_blocks) = 2

\* the four bytes of a little-endian field that holds n
LittleField4(n) == [i \in 1..4 |-> (n \div (256 ^ (i - 1))) % 256]

\* the header hash of the header that get_block_header returned the fields of
HashOfFields(r) ==
    sha256d(LittleField4(r[1]) \o Reverse(r[2]) \o Reverse(r[3])
            \o LittleField4(r[4]) \o LittleField4(r[5]) \o LittleField4(r[6]))

\* C8: for every stored block, the by-hash accessors called with its header
\* hash return the header fields, the height and the main_chain flag of one
\* stored block with that header hash, and the header fields hash to the
\* hash asked for; for a hash no stored block has they return absent.
C8_FindBlock ==
    pc = "done" =>
        LET hashes == [pos \in Stored |-> HashAt(pos)]
            known == { hashes[pos] : pos \in Stored }
        IN  /\ \A h \in known :
                  LET q == Reverse(h)
                      header == get_block_header(q)
                      height == get_block_height(q)
                      main_chain == get_main_chain(q)
                      transactions == get_block_transactions(q)
                  IN  /\ header # HeaderNotFound
                      /\ HashOfFields(header) = h
                      /\ \E f \in Stored :
                            /\ hashes[f] = h
                            /\ header[2] = Reverse(BlockAt(f).previous_block_header_hash)
                            /\ header[3] = Reverse(BlockAt(f).merkle_root_hash)
                            /\ height = BlockAt(f).height
                            /\ main_chain = BlockAt(f).main_chain
                            /\ transactions[1] = BlockAt(f).tx_count
            /\ \A q \in QueryHashes :
                  Reverse(q) \notin known =>
                      /\ get_block_header(q) = HeaderNotFound
                      /\ get_block_height(q) = -1
                      /\ get_main_chain(q) = FALSE
                      /\ get_block_transactions(q) = <<-1, <<>>>>

\* setup is done; the accessors find a main-chain block of height 1 and do
\* not find a genesis block that was never ingested
C8_Witness ==
    /\ pc = "done"
    /\ \E pos \in Stored :
          /\ get_block_height(Reverse(HashAt(pos))) = 1
          /\ get_main_chain(Reverse(HashAt(pos)))
    /\ \E g \in GenesisHashes : get_block_height(Reverse(g)) = -1

\* while the process runs, the tx-to-parent map holds the txids of the stored
\* blocks and no other, and transaction_info finds each in a stored block
\* that holds it
TxIndexConsistent ==
    pc # "failed" =>
        /\ DOMAIN txid_to_prev_hash = UNION { TxidsOf(BlockAt(pos)) : pos \in Stored }
        /\ \A t \in DOMAIN txid_to_prev_hash :
              LET r == get_transaction_info(Reverse(t))
              IN  /\ r # TxInfoNotFound
                  /\ Len(r) = 6
                  /\ \E f \in Stored :
                        /\ r[1] = Reverse(HashAt(f))
                        /\ t \in TxidsOf(BlockAt(f))

\* the step keys every txid of the block it appended to that block's parent
\* hash and leaves the other txids as they were
InsertRecordsTxids ==
    \E p \in DOMAIN prev_hash_to_blocks' :
        LET new == prev_hash_to_blocks'[p]
            b == new[Len(new)]
        IN  /\ Len(new) = Len(children_of(p)) + 1
            /\ DOMAIN txid_to_prev_hash' = DOMAIN txid_to_prev_hash \cup TxidsOf(b)
            /\ \A t \in DOMAIN txid_to_prev_hash' :
                  txid_to_prev_hash'[t] =
                      IF t \in TxidsOf(b) THEN b.previous_block_header_hash
                      ELSE txid_to_prev_hash[t]

\* C9: the tx-to-parent map holds one entry for every txid of every stored
\* block, the parent hash of the block containing it that was ingested last,
\* and transaction_info(txid) returns the header hash of a stored block
\* that holds a transaction with that txid.
C9_FindTx == [] TxIndexConsistent /\ [][Inserted => InsertRecordsTxids]_vars

\* setup is done; one txid occurs in blocks with different parents, the map
\* keeps the parent of the later one and transaction_info returns a block
\* under that parent
C9_Witness ==
    /\ pc = "done"
    /\ \E f, g \in Stored :
          LET t == TxHashLittle(CoinbaseTx)
          IN  /\ f[1] # g[1]
              /\ t \in TxidsOf(BlockAt(f)) /\ t \in TxidsOf(BlockAt(g))
              /\ txid_to_prev_hash[t] = g[1]
              /\ g[1] # source_hash
              /\ get_transaction_info(Reverse(t))[1] = Reverse(HashAt(g))

\* C10 (as claimed): for each by-hash accessor, the result for a well-formed
\* hash that no stored block (no stored transaction) has differs from every
\* result for a hash that one has.
C10_NotFoundSignal ==
    pc = "done" =>
        LET known == { Reverse(HashAt(pos)) : pos \in Stored }
            knownTx == { Reverse(t) : t \in UNION { TxidsOf(BlockAt(pos)) : pos \in Stored } }
        IN  /\ \A k \in known, u \in QueryHashes \ known :
                  /\ get_block_header(k) # get_block_header(u)
                  /\ get_block_height(k) # get_block_height(u)
                  /\ get_main_chain(k) # get_main_chain(u)
                  /\ get_block_transactions(k) # get_block_transactions(u)
            /\ \A k \in knownTx, u \in QueryHashes \ knownTx :
                  /\ get_transaction_info(k) # get_transaction_info(u)
                  /\ get_transaction_inputs(k) # get_transaction_inputs(u)
                  /\ get_transaction_outputs(k) # get_transaction_outputs(u)

(* ------------------- C11: phases of setup and queries ------------------- *)

\* a request handler has written a response in this step
QueryServed == message' # message

\* what the accessors read: the three maps (heights and flags are fields of
\* the blocks in prev_hash_to_blocks), the tip and its height
store_vars == <<prev_hash_to_blocks, curr_hash_to_prev_hash, txid_to_prev_hash,
                blockchain_height, latest_block_little>>

\* C11: in every interleaving of request handlers with setup, a query is
\* served only once setup has completed (ingest and resolution done), and
\* once a query has been served no map, height, flag or tip changes.
C11_PhaseSeparation ==
    [][ /\ QueryServed => pc = "done"
        /\ message # NoMessage => UNCHANGED store_vars ]_vars

(* ---------------------- C12: decoder validation ------------------------ *)

\* the three checks of the claim on a record: the bytes F9 BE B4 D9 on disk,
\* a declared size equal to the bytes from the header start to the end of the
\* last transaction, and a header Merkle root equal to the root of the txids
RecordValid(rec) ==
    /\ rec.magic = <<249, 190, 180, 217>>
    /\ rec.block_size = ParsedBytes(rec.txs)
    /\ rec.merk_hash =
          get_merkle_root([i \in 1..Len(rec.txs) |-> TxHashLittle(rec.txs[i])])

\* the block made of rec is the new last child of rec's parent, and is
\* indexed under its header hash
Stores(rec) ==
    /\ rec.prev_hash \in DOMAIN prev_hash_to_blocks'
    /\ LET blocks == prev_hash_to_blocks'[rec.prev_hash]
           before == IF rec.prev_hash \in DOMAIN prev_hash_to_blocks
                     THEN prev_hash_to_blocks[rec.prev_hash] ELSE <<>>
       IN  /\ blocks = Append(before, Block(rec))
           /\ get_curr_hash_little(Block(rec)) \in DOMAIN curr_hash_to_prev_hash'
    /\ block_count' = block_count + 1

\* every stored block carries the Merkle root of its own ordered txids
StoredMerkleValid ==
    \A pos \in Stored :
        BlockAt(pos).merkle_root_hash =
            get_merkle_root([i \in 1..BlockAt(pos).tx_count |-> BlockAt(pos).txs[i].hash])

\* C12: a record is stored if and only if it passes the three checks (magic,
\* declared size, Merkle root); a record that fails one makes parse_block
\* raise with the two block maps and the block count unchanged, and after a
\* raise no record is ingested any more.  Every stored block has the Merkle
\* root of its txids.
C12_DecoderValidation ==
    /\ [] StoredMerkleValid
    /\ [][ (pc = "load" /\ pc' # "bfs") =>
             \A rec \in Records :
                parse_block(rec) =>
                   IF RecordValid(rec)
                   THEN pc' = "load" /\ Stores(rec)
                   ELSE /\ pc' = "failed"
                        /\ UNCHANGED <<prev_hash_to_blocks, curr_hash_to_prev_hash,
                                       block_count>> ]_vars
    /\ [][ pc = "failed" => UNCHANGED index_vars ]_vars

\* parse_block has raised on the second or a later record: a block is
\* stored and the resolver never started
C12_Witness ==
    /\ pc = "failed"
    /\ block_count >= 1
    /\ distances = EmptyDict
    /\ txid_to_prev_hash # EmptyDict

(* ------------------- C13: the records of a file ------------------------ *)

\* the bytes from an offset to the end of the file
Remaining(offset) == file_end - offset

\* C13: a record is decoded at an offset only when 88 or more bytes remain
\* from it (the first record included); after a record is decoded the offset
\* advances by 4 + block_size + 4; and load_file goes on to another record
\* exactly when 88 or more bytes remain from the new offset.
C13_RecordIteration ==
    [][ file_pc = "loop" =>
          /\ Remaining(header_start) >= 88
          /\ pc' = "load" =>
                /\ header_start' =
                      header_start + 4 + RecordAt(header_start).block_size + 4
                /\ file_pc' = "loop" <=> Remaining(header_start') >= 88 ]_vars

(* -------------------------- C14: Merkle root --------------------------- *)

\* hash(a || b) of the claim
PairHash(a, b) == sha256d(a \o b)

RECURSIVE PairUp(_)
\* the hashes of the adjacent pairs of a list, in order, the last element
\* paired with itself when it has no partner
PairUp(H) ==
    IF H = <<>> THEN <<>>
    ELSE IF Len(H) = 1 THEN <<PairHash(H[1], H[1])>>
    ELSE <<PairHash(H[1], H[2])>> \o PairUp(Tail(Tail(H)))

\* get_merkle_root was called on H and returned root
MerkleReturned(H, root) ==
    /\ call.op = "get_merkle_root"
    /\ call.outcome = "returned"
    /\ call.child_hashes = H
    /\ call.value = root

MerkleAsClaimed ==
    (call.op = "get_merkle_root" /\ call.outcome = "returned") =>
        LET H == call.child_hashes
            root == call.value
        IN  /\ Len(H) = 1 => root = H[1]
            /\ Len(H) > 1 => root = get_merkle_root(PairUp(H))
            /\ Len(H) = 2 => root = PairHash(H[1], H[2])
            /\ Len(H) = 3 => root = PairHash(PairHash(H[1], H[2]), PairHash(H[3], H[3]))
            /\ Len(H) = 4 => root = PairHash(PairHash(H[1], H[2]), PairHash(H[3], H[4]))
            /\ Len(H) = 5 =>
                  root = PairHash(PairHash(PairHash(H[1], H[2]), PairHash(H[3], H[4])),
                                  PairHash(PairHash(H[5], H[5]), PairHash(H[5], H[5])))

\* C14: called on a non-empty list H of hashes, get_merkle_root returns, and
\* what it returns is H[0] when |H| = 1 and otherwise its own result on the
\* list of hash(a || b) over the adjacent pairs of H, the last element
\* doubled when |H| is odd, pairs and elements in the order of H.
C14_MerkleRoot ==
    /\ [] MerkleAsClaimed
    /\ (call.op = "get_merkle_root") ~> (call.outcome = "returned")

\* get_merkle_root has returned on three hashes, the first two different
C14_Witness ==
    /\ call.op = "get_merkle_root"
    /\ call.outcome = "returned"
    /\ Len(call.child_hashes) = 3
    /\ call.child_hashes[1] # call.child_hashes[2]
    /\ call.value = PairHash(PairHash(call.child_hashes[1], call.child_hashes[2]),
                             PairHash(call.child_hashes[3], call.child_hashes[3]))

(* ----------------------- C15: CompactSize decoding --------------------- *)

\* the little-endian value of up to eight bytes, as four 16-bit limbs
LittleEndianValue(bytes) ==
    LET byte(i) == IF i <= Len(bytes) THEN bytes[i] ELSE 0
    IN  [k \in 1..4 |-> byte(2 * k - 1) + 256 * byte(2 * k)]

\* the n low bytes of a value, the least significant first
LowBytes(v, n) ==
    [i \in 1..n |-> IF i % 2 = 1 THEN v[(i + 1) \div 2] % 256
                    ELSE v[i \div 2] \div 256]

\* the CompactSize encoding of a value
CompactSize(v) ==
    IF v[2] = 0 /\ v[3] = 0 /\ v[4] = 0 /\ v[1] < 253 THEN <<v[1]>>
    ELSE IF v[2] = 0 /\ v[3] = 0 /\ v[4] = 0 THEN <<253>> \o LowBytes(v, 2)
    ELSE IF v[3] = 0 /\ v[4] = 0 THEN <<254>> \o LowBytes(v, 4)
    ELSE <<255>> \o LowBytes(v, 8)

\* 0, 0xFC, 0xFD, 0xFFFF, 0x10000, 0xFFFFFFFF, 0x100000000 and 2^64 - 1
BoundaryValues ==
    { <<0, 0, 0, 0>>, <<252, 0, 0, 0>>, <<253, 0, 0, 0>>, <<65535, 0, 0, 0>>,
      <<0, 1, 0, 0>>, <<65535, 65535, 0, 0>>, <<0, 0, 1, 0>>,
      <<65535, 65535, 65535, 65535>> }

\* the bytes of the block from the cursor on
AtCursor == SubSeq(call.block, call.nth_byte + 1, Len(call.block))

\* whether the bytes at the cursor begin with the given bytes
BeginsWith(bytes) ==
    Len(AtCursor) >= Len(bytes) /\ SubSeq(AtCursor, 1, Len(bytes)) = bytes

\* parse_var_len_int has returned this value and this count
VarIntIs(value, count) ==
    /\ call.outcome = "returned"
    /\ call.data = value
    /\ call.num_byte_parsed = count

\* C15: parse_var_len_int returns (b, 1) when the first byte b at the cursor is
\* below 0xFD, and for a first byte 0xFD, 0xFE, 0xFF followed by 2, 4, 8 bytes
\* the little-endian value of those bytes with 3, 5, 9 bytes consumed; at the
\* CompactSize encoding of each of the eight boundary values it returns the
\* value and the length of the encoding.
C15_CompactSize ==
    (call.op = "parse_var_len_int" /\ call.outcome # "pending") =>
        LET bytes == AtCursor
            next(n) == SubSeq(bytes, 2, n + 1)
        IN  /\ (Len(bytes) >= 1 /\ bytes[1] < 253) => VarIntIs(<<bytes[1], 0, 0, 0>>, 1)
            /\ (Len(bytes) >= 3 /\ bytes[1] = 253) => VarIntIs(LittleEndianValue(next(2)), 3)
            /\ (Len(bytes) >= 5 /\ bytes[1] = 254) => VarIntIs(LittleEndianValue(next(4)), 5)
            /\ (Len(bytes) >= 9 /\ bytes[1] = 255) => VarIntIs(LittleEndianValue(next(8)), 9)
            /\ \A v \in BoundaryValues :
                  BeginsWith(CompactSize(v)) => VarIntIs(v, Len(CompactSize(v)))

\* parse_var_len_int has decoded 0xFD, which takes three bytes, after one
\* byte of the block
C15_Witness ==
    /\ call.op = "parse_var_len_int"
    /\ call.nth_byte = 1
    /\ BeginsWith(CompactSize(<<253, 0, 0, 0>>))
    /\ VarIntIs(<<253, 0, 0, 0>>, 3)

(* ------------------ C16: what the resolver writes ---------------------- *)

\* how many times the setter of a field was called on the block at pos
SetCount(field, pos) ==
    Cardinality({ k \in 1..Len(set_log) :
                    set_log[k] = [field |-> field, prev |-> pos[1], index |-> pos[2]] })

\* the setter calls of this step
NewSets ==
    { set_log'[k] : k \in (Len(set_log) + 1)..Len(set_log') }

\* a block without the two fields the resolver sets
Entity(block) == [block EXCEPT !.height = 0, !.main_chain = FALSE]

\* Every block stored before the step keeps every field of its own and of its
\* transactions, inputs and outputs, but height and main_chain; and these two
\* change only in a step that calls their setter on that block.
FieldsKept ==
    \A pos \in Stored :
        LET before == BlockAt(pos)
            after == prev_hash_to_blocks'[pos[1]][pos[2]]
        IN  /\ Entity(after) = Entity(before)
            /\ after.height # before.height =>
                  [field |-> "height", prev |-> pos[1], index |-> pos[2]] \in NewSets
            /\ after.main_chain # before.main_chain =>
                  [field |-> "main_chain", prev |-> pos[1], index |-> pos[2]] \in NewSets

\* "exactly once" of the claim: when setup has returned, each setter has been
\* called once on every stored block
SetExactlyOnce ==
    pc = "done" =>
        \A pos \in Stored :
            SetCount("height", pos) = 1 /\ SetCount("main_chain", pos) = 1

\* C16 as stated: during one run of the resolver the height and the
\* main_chain flag of every stored block are each set exactly once, and no
\* other field of a block, transaction, input or output changes after the
\* block is inserted.
C16_WriteOnceAsClaimed ==
    /\ [] SetExactlyOnce
    /\ [][FieldsKept]_vars

\* no setter is called twice on a block; when setup has returned, set_height
\* has been called on the blocks that are reachable from the sentinel and the
\* first with their header hash, and set_main_chain on the blocks whose flag
\* is true
SetOnceWhereSet ==
    /\ \A pos \in Stored :
          SetCount("height", pos) <= 1 /\ SetCount("main_chain", pos) <= 1
    /\ pc = "done" =>
          \A pos \in Stored :
              /\ SetCount("height", pos) = 1 <=>
                    (IsFirstCopy(pos) /\ Depth(HashAt(pos)) > 0)
              /\ SetCount("main_chain", pos) = 1 <=> BlockAt(pos).main_chain

\* C16, amended: during one run of the resolver the height of a block is set
\* at most once, and exactly once on the blocks reachable from the sentinel
\* that are the first ingested with their header hash; the main_chain flag is
\* set at most once, and exactly once on the blocks that end up flagged; no
\* other field of a block, transaction, input or output changes after the
\* block is inserted.
C16_WriteOnce ==
    /\ [] SetOnceWhereSet
    /\ [][FieldsKept]_vars

\* setup has returned on an index with a block off the main chain whose
\* height was set, a block on it, and a block whose height was never set
C16_Witness ==
    /\ pc = "done"
    /\ \E pos \in Stored : SetCount("height", pos) = 1 /\ SetCount("main_chain", pos) = 0
    /\ \E pos \in Stored : SetCount("height", pos) = 1 /\ SetCount("main_chain", pos) = 1
    /\ \E pos \in Stored : SetCount("height", pos) = 0

(* --------------- C17: parse_block when an assertion fails -------------- *)

\* the step is a call of parse_block that raises
ParseRaises == pc = "load" /\ pc' = "failed"

\* every txid recorded maps to a parent whose list holds a block with that
\* transaction
TxKeysResolve ==
    \A t \in DOMAIN txid_to_prev_hash :
        /\ txid_to_prev_hash[t] \in DOMAIN prev_hash_to_blocks
        /\ \E i \in 1..Len(prev_hash_to_blocks[txid_to_prev_hash[t]]) :
              \E j \in 1..prev_hash_to_blocks[txid_to_prev_hash[t]][i].tx_count :
                  prev_hash_to_blocks[txid_to_prev_hash[t]][i].txs[j].hash = t

\* C17: a call of parse_block that raises leaves prev_hash_to_blocks,
\* curr_hash_to_prev_hash and txid_to_prev_hash as they were, so every txid
\* recorded always maps to a parent whose list holds a block with that
\* transaction.
C17_FailureAtomicity ==
    /\ [][ParseRaises => UNCHANGED <<prev_hash_to_blocks, curr_hash_to_prev_hash,
                                     txid_to_prev_hash>>]_vars
    /\ [] TxKeysResolve

(* -------------------- C18: the resolver completes ---------------------- *)

\* compute_distances_bfs has been entered
ResolverStarted == distances # EmptyDict

\* a block with the sentinel as parent has been ingested
SentinelHasChild == \E pos \in Stored : pos[1] = source_hash

\* no header hash has been enqueued twice
EnqueuedOnce ==
    \A i, j \in 1..Len(bfs_order) : bfs_order[i] = bfs_order[j] => i = j

\* setup returns with a tip exactly on an index with a block under the
\* sentinel; on any other, BFS gives "" and -2, the lookup of the parent of ""
\* raises, and no block has been marked
CompletesOrFails ==
    /\ pc \in {"walk", "done"} => SentinelHasChild
    /\ pc = "done" =>
          /\ latest_block_little # EmptyString
          /\ latest_block_little \in DOMAIN curr_hash_to_prev_hash
    /\ (pc = "failed" /\ ResolverStarted) =>
          /\ ~SentinelHasChild
          /\ queue = <<>>
          /\ latest_block_little = EmptyString
          /\ blockchain_height = -2
          /\ \A pos \in Stored : ~BlockAt(pos).main_chain
          /\ \A k \in 1..Len(set_log) : set_log[k].field # "main_chain"

\* C18: compute_distances_bfs enqueues each header hash at most once and
\* comes to an end, and so does setup: it returns with a tip set if and only
\* if some ingested block has the sentinel as parent; otherwise BFS returns
\* the empty tip with height -2 and setup raises on the lookup of the parent
\* of that tip, with no block marked.
C18_ResolverCompletion ==
    /\ [] (EnqueuedOnce /\ CompletesOrFails)
    /\ (pc = "bfs") ~> (pc = "bfs" /\ queue = <<>>)
    /\ (pc = "bfs") ~> (pc = "done" \/ pc = "failed")
    /\ (pc = "bfs" /\ SentinelHasChild) ~> (pc = "done")

\* setup has raised on an index of blocks none of which is under the sentinel
C18_Witness ==
    /\ pc = "failed"
    /\ ResolverStarted
    /\ block_count >= 2
    /\ blockchain_height = -2

====
